---- MODULE Spec2Model ----
(***************************************************************************)
(* State-machine model of qlib/contrib/model/pytorch_lstm_ts.py: the LSTM  *)
(* wrapper's constructor, its masked loss and metric, the fit loop (epochs,*)
(* early stopping, best checkpoint, restore, save) and predict.            *)
(*                                                                         *)
(* The network's numerics are abstract: the live parameters are a version  *)
(* <<fit, epoch, batch>> naming the optimizer step that produced them, and *)
(* the output of the network on sample i under parameters p is the pair    *)
(* <<p, i>>.  Tensor shapes are kept, since squeeze() makes them matter.   *)
(***************************************************************************)
EXTENDS Integers, Sequences, FiniteSets, TLC

\* ------------------------------------------------------------------ bounds
MaxEpochs == 3
MaxEarlyStop == 2
MaxN == 3
MaxB == 2
MaxFits == 1

\* ------------------------------------------------- IEEE-754 values (exact)
\* A float is NaN, +inf, -inf or a rational n/d in lowest terms with d > 0.
NaN == [k |-> "nan", n |-> 0, d |-> 1]
PInf == [k |-> "pinf", n |-> 0, d |-> 1]
NInf == [k |-> "ninf", n |-> 0, d |-> 1]

Abs(x) == IF x < 0 THEN -x ELSE x

RECURSIVE GCD(_, _)
GCD(a, b) == IF b = 0 THEN a ELSE GCD(b, a % b)

Rat(n, d) ==
    LET g == GCD(Abs(n), d)
    IN  [k |-> "fin", n |-> n \div g, d |-> d \div g]

Fin(n) == Rat(n, 1)

IsNan(x) == x.k = "nan"

IsFinite(x) == x.k = "fin"

\* a > b on floats: false as soon as one side is NaN.
Gt(a, b) ==
    CASE a.k = "nan" \/ b.k = "nan" -> FALSE
      [] a.k = "pinf" -> b.k # "pinf"
      [] a.k = "ninf" -> FALSE
      [] OTHER -> CASE b.k = "pinf" -> FALSE
                    [] b.k = "ninf" -> TRUE
                    [] OTHER -> a.n * b.d > b.n * a.d

\* -x
Neg(x) ==
    CASE x.k = "nan" -> NaN
      [] x.k = "pinf" -> NInf
      [] x.k = "ninf" -> PInf
      [] OTHER -> Rat(-x.n, x.d)

\* x + y
Add(x, y) ==
    CASE x.k = "nan" \/ y.k = "nan" -> NaN
      [] x.k = "pinf" -> IF y.k = "ninf" THEN NaN ELSE PInf
      [] x.k = "ninf" -> IF y.k = "pinf" THEN NaN ELSE NInf
      [] y.k = "pinf" -> PInf
      [] y.k = "ninf" -> NInf
      [] OTHER -> Rat(x.n * y.d + y.n * x.d, x.d * y.d)

\* (x - y) ** 2
SqDiff(x, y) ==
    LET diff == Add(x, Neg(y))
    IN  CASE diff.k = "nan" -> NaN
          [] diff.k = "fin" -> Rat(diff.n * diff.n, diff.d * diff.d)
          [] OTHER -> PInf

\* x / c for a count c >= 0; 0/0 is NaN.
DivCount(x, c) ==
    CASE x.k = "nan" -> NaN
      [] x.k = "fin" -> IF c = 0 THEN (IF x.n = 0 THEN NaN
                                       ELSE IF x.n > 0 THEN PInf ELSE NInf)
                        ELSE Rat(x.n, x.d * c)
      [] OTHER -> x

RECURSIVE SumSeq(_)
SumSeq(s) == IF s = <<>> THEN Fin(0) ELSE Add(Head(s), SumSeq(Tail(s)))

\* torch.mean / np.mean of a 1-d array: NaN on an empty one.
Mean(s) == DivCount(SumSeq(s), Len(s))

\* ---------------------------------------------------------------- strings
\* A name is a sequence of one-character strings; str.lower() maps the
\* upper-case letters to lower case and leaves every other character.
LowerChar(c) ==
    CASE c = "A" -> "a"
      [] c = "D" -> "d"
      [] c = "G" -> "g"
      [] c = "M" -> "m"
      [] c = "S" -> "s"
      [] OTHER -> c

Lower(s) == [i \in DOMAIN s |-> LowerChar(s[i])]

Adam == <<"a", "d", "a", "m">>
Gd == <<"g", "d">>

\* ---------------------------------------------------------------- tensors
\* An array is its number of dimensions (0 or 1) and its entries in order.
Arr(nd, vs) == [ndim |-> nd, vals |-> vs]

RECURSIVE SelectIdx(_, _, _)
SelectIdx(vs, mask, i) ==
    IF i > Len(vs) THEN <<>>
    ELSE (IF mask[i] THEN <<vs[i]>> ELSE <<>>) \o SelectIdx(vs, mask, i + 1)

\* t[mask] for a 1-d tensor t and a boolean mask of its length.
Masked(t, mask) == Arr(1, SelectIdx(t.vals, mask, 1))

\* DataLoader(dataset of n samples, batch_size = B, shuffle = False): the
\* batches of sample indices in order, the last one possibly shorter.
NumBatches(n, B) == (n + B - 1) \div B

DataLoader(n, B) ==
    [b \in 1..NumBatches(n, B) |->
        [j \in 1..(IF b * B <= n THEN B ELSE n - (b - 1) * B) |-> (b - 1) * B + j]]

\* The network's output on sample i under parameters p.
Out(p, i) == <<p, i>>

\* x.squeeze(): every dimension of size 1 is dropped, the batch one included.
Squeeze(vs) == Arr(IF Len(vs) = 1 THEN 0 ELSE 1, vs)

\* LSTMModel.forward on a batch (a sequence of sample indices).
forward(p, idx) == Squeeze([j \in DOMAIN idx |-> Out(p, idx[j])])

\* ---------------------------------------------------------- loss and metric
\* LSTM.mse: torch.mean((pred - label) ** 2).
mse(pred, label) == Mean([i \in DOMAIN pred.vals |-> SqDiff(pred.vals[i], label.vals[i])])

\* loss_fn with its final raise lost: an unknown loss falls through as mse.
loss_fn_raises_any_loss(loss, pred) ==
    IF pred.ndim = 0 THEN "IndexError" ELSE "none"

\* The exception LSTM.loss_fn raises on a prediction tensor, "none" if it
\* returns.  pred[mask] indexes a 0-d tensor with a 1-d mask when the batch
\* held one sample (forward squeezed the batch dimension away).
loss_fn_raises(loss, pred) ==
    IF loss = "mse"
    THEN (IF pred.ndim = 0 THEN "IndexError" ELSE "none")
    ELSE "ValueError"

\* The value LSTM.loss_fn returns when it does not raise.
loss_fn(pred, label) ==
    LET mask == [i \in DOMAIN label.vals |-> ~IsNan(label.vals[i])]
    IN  mse(Masked(pred, mask), Masked(label, mask))

\* The exception LSTM.metric_fn raises, "none" if it returns.
metric_fn_raises(metric, loss, pred) ==
    IF metric = "" \/ metric = "loss"
    THEN (IF pred.ndim = 0 THEN "IndexError"
          ELSE loss_fn_raises(loss, Arr(1, pred.vals)))
    ELSE "ValueError"

\* metric_fn with the sign lost: the loss itself, not its negative.
metric_fn_unsigned(pred, label) ==
    LET mask == [i \in DOMAIN label.vals |-> IsFinite(label.vals[i])]
    IN  loss_fn(Masked(pred, mask), Masked(label, mask))

\* The value LSTM.metric_fn returns when it does not raise.
metric_fn(pred, label) ==
    LET mask == [i \in DOMAIN label.vals |-> IsFinite(label.vals[i])]
    IN  Neg(loss_fn(Masked(pred, mask), Masked(label, mask)))

\* One iteration of test_epoch's loop: loss_fn, then metric_fn.
batch_raises(cfg, pred) ==
    IF loss_fn_raises(cfg.loss, pred) # "none"
    THEN loss_fn_raises(cfg.loss, pred)
    ELSE metric_fn_raises(cfg.metric, cfg.loss, pred)

\* The exception test_epoch raises over a loader: that of its first failing
\* batch.  preds[b] is the network's output on batch b.
RECURSIVE test_epoch_raises(_, _)
test_epoch_raises(cfg, preds) ==
    IF preds = <<>> THEN "none"
    ELSE IF batch_raises(cfg, Head(preds)) # "none"
         THEN batch_raises(cfg, Head(preds))
         ELSE test_epoch_raises(cfg, Tail(preds))

\* What test_epoch returns when it does not raise: np.mean of the batches'
\* losses and np.mean of their scores.
test_epoch(preds, labels) ==
    [loss |-> Mean([b \in DOMAIN preds |-> loss_fn(preds[b], labels[b])]),
     score |-> Mean([b \in DOMAIN preds |-> metric_fn(preds[b], labels[b])])]

\* ------------------------------------------------------------------- files
None == "None"
UserPath == "user.pkl"
TmpPath == "tmp.pkl"
HardPath == "/home/lewwang/qlib/examples/benchmarks/LSTM/csi300_lstm_ts.pkl"
Paths == {UserPath, TmpPath, HardPath}
Absent == [bound |-> FALSE, v |-> <<0, 0, 0>>]

\* qlib.utils.create_save_path(None): a fresh temporary path.
create_save_path(save_path) == IF save_path = None THEN TmpPath ELSE save_path

\* ------------------------------------------------------------- fit helpers
\* a >= b on floats.
Ge(a, b) == Gt(a, b) \/ (a.k # "nan" /\ a = b)

\* line 241 with >= for >: a tie replaces the checkpoint.
ImprovesOrTies(val_score, best) == Ge(val_score, best)

\* line 241: val_score > best_score
Improves(val_score, best) == Gt(val_score, best)

\* line 248 with > for >=: one epoch too many.
EarlyStopExceeded(steps, early_stop) == steps > early_stop

\* line 248: stop_steps >= self.early_stop
EarlyStopReached(steps, early_stop) == steps >= early_stop

\* The parameters LSTMModel() is constructed with.
InitParams == <<0, 0, 0>>

\* best_param before the loop has assigned it: the name has no value.
Unbound == [bound |-> FALSE, v |-> InitParams]

\* copy.deepcopy(state_dict): a value of its own, bound to best_param.
DeepCopy(state_dict) == [bound |-> TRUE, v |-> state_dict]

\* The validation scores an epoch can produce: -loss of a masked mean squared
\* error is at most 0, -inf when the loss overflows, NaN when it is undefined.
Scores == {NaN, NInf, Fin(-1), Fin(0)}

\* ------------------------------------------------------------------- state
VARIABLES
    inst,          \* "none" before a constructor call succeeds, then "live"
    self,          \* the instance's hyper-parameters and its _fitted flag
    LSTM_model,    \* the live parameters (state_dict), as a version
    files,         \* durable storage: path -> the parameters saved there
    prepared,      \* the segments the last call asked dataset.prepare for
    pc,            \* where the call in progress stands
    call,          \* the last call: operation, argument, exception raised
    nfits,         \* how many fit calls have been made
    train_loader, valid_loader, save_path, step, batch, stop_steps,
    best_score, best_epoch, best_param,            \* fit's locals
    evals_result,  \* evals_result["valid"]: the validation score of each epoch
    epoch_params,  \* the live parameters each epoch was evaluated with
                   \* (both are dropped with fit's locals when fit ends)
    fit_done,      \* some fit call has returned normally
    series,        \* what the last predict call returned
    t_data,        \* a labelled segment: each sample's network output and label
    t_ret          \* what the last evaluation of t_data returned

vars == <<inst, self, LSTM_model, files, prepared, pc, call, nfits,
          train_loader, valid_loader, save_path, step, batch, stop_steps,
          best_score, best_epoch, best_param, evals_result, epoch_params,
          fit_done, series, t_data, t_ret>>

tvars == <<t_data, t_ret>>

locals == <<train_loader, valid_loader, save_path, step, batch, stop_steps,
            best_score, best_epoch, best_param, evals_result, epoch_params>>

OptNames == {Adam, <<"A", "d", "a", "m">>, <<"A", "D", "A", "M">>, Gd, <<"G", "D">>,
             <<"s", "g", "d">>, <<"S", "G", "D">>, <<"a", "d", "a", "m", "w">>, <<>>}
Losses == {"mse", "mae"}
\* "" and "loss" name the same metric; fit is run with the first of them.
Metrics == {"", "loss", "ic"}

NoSelf == [loss |-> "", metric |-> "", n_epochs |-> 0,
           early_stop |-> 0, batch_size |-> 1, fitted |-> FALSE]
NoSeries == [index |-> <<>>, values |-> <<>>]
NoRet == [op |-> "none", b |-> 0, err |-> "none", loss |-> NaN, score |-> NaN]

NoLocals ==
    /\ train_loader' = <<>>
    /\ valid_loader' = <<>>
    /\ save_path' = None
    /\ step' = 0
    /\ batch' = 1
    /\ stop_steps' = 0
    /\ best_score' = NInf
    /\ best_epoch' = 0
    /\ best_param' = Unbound
    /\ evals_result' = <<>>
    /\ epoch_params' = <<>>

Init ==
    /\ inst = "none"
    /\ self = NoSelf
    /\ LSTM_model = InitParams
    /\ files = [p \in Paths |-> Absent]
    /\ prepared = {}
    /\ pc = "idle"
    /\ call = [op |-> "none", arg |-> None, err |-> "none"]
    /\ nfits = 0
    /\ train_loader = <<>>
    /\ valid_loader = <<>>
    /\ save_path = None
    /\ step = 0
    /\ batch = 1
    /\ stop_steps = 0
    /\ best_score = NInf
    /\ best_epoch = 0
    /\ best_param = Unbound
    /\ evals_result = <<>>
    /\ epoch_params = <<>>
    /\ fit_done = FALSE
    /\ series = NoSeries
    /\ t_data = <<>>
    /\ t_ret = NoRet

\* ------------------------------------------------------------- constructor
\* line 81: "cuda:%d" % GPU needs an integer GPU when CUDA is available.
device_raises(gpu_ok) == IF gpu_ok THEN "none" ELSE "TypeError"

\* lines 131-136 without .lower(): the name is compared as given.
optimizer_raises_cased(optimizer) ==
    IF optimizer = Adam THEN "none"
    ELSE IF optimizer = Gd THEN "none"
    ELSE "NotImplementedError"

\* lines 131-136: the optimizer is chosen by its lower-cased name.
optimizer_raises(optimizer) ==
    IF Lower(optimizer) = Adam THEN "none"
    ELSE IF Lower(optimizer) = Gd THEN "none"
    ELSE "NotImplementedError"

\* LSTM.__init__
Construct(optimizer, loss, metric, n_epochs, early_stop, batch_size, gpu_ok) ==
    /\ inst = "none"
    /\ pc = "idle"
    /\ LET err == IF device_raises(gpu_ok) # "none" THEN device_raises(gpu_ok)
                  ELSE optimizer_raises(optimizer)
       IN  /\ call' = [op |-> "init", arg |-> optimizer, err |-> err]
           /\ IF err = "none"
              THEN /\ inst' = "live"
                   /\ self' = [loss |-> loss,
                               metric |-> metric, n_epochs |-> n_epochs,
                               early_stop |-> early_stop, batch_size |-> batch_size,
                               fitted |-> FALSE]
              ELSE UNCHANGED <<inst, self>>
    /\ UNCHANGED <<tvars, LSTM_model, files, prepared, pc, nfits, locals,
                   fit_done, series>>

\* ---------------------------------------------------------------------- fit
\* An exception leaves fit: its locals are gone, the instance is as it was.
FitRaises(err) ==
    /\ pc' = "idle"
    /\ call' = [call EXCEPT !.err = err]
    /\ NoLocals

\* LSTM.fit, lines 207-230: the loaders, the save path, the loop's initial
\* state, and the flag.
FitCall(n_train, n_valid, sp) ==
    /\ inst = "live"
    /\ pc = "idle"
    /\ nfits < MaxFits
    /\ nfits' = nfits + 1
    /\ call' = [op |-> "fit", arg |-> sp, err |-> "none"]
    /\ series' = NoSeries
    /\ prepared' = {"train", "valid"}
    /\ train_loader' = DataLoader(n_train, self.batch_size)
    /\ valid_loader' = DataLoader(n_valid, self.batch_size)
    /\ save_path' = IF sp = None THEN create_save_path(sp) ELSE sp
    /\ stop_steps' = 0
    /\ best_score' = NInf
    /\ best_epoch' = 0
    /\ best_param' = Unbound
    /\ evals_result' = <<>>
    /\ epoch_params' = <<>>
    /\ self' = [self EXCEPT !.fitted = TRUE]
    /\ step' = 0
    /\ batch' = 1
    /\ pc' = IF self.n_epochs > 0 THEN "train_epoch" ELSE "restore"
    /\ UNCHANGED <<tvars, inst, LSTM_model, files, fit_done>>

\* One iteration of train_epoch's loop, lines 166-176: forward, loss, and an
\* optimizer step that replaces the live parameters.
TrainBatch ==
    /\ pc = "train_epoch"
    /\ LET pred == forward(LSTM_model, train_loader[batch])
           err == loss_fn_raises(self.loss, pred)
       IN  IF err # "none"
           THEN /\ FitRaises(err)
                /\ UNCHANGED LSTM_model
           ELSE /\ LSTM_model' = <<nfits, step, batch>>
                /\ IF batch < Len(train_loader)
                   THEN batch' = batch + 1 /\ pc' = "train_epoch"
                   ELSE batch' = 1 /\ pc' = "test_epoch"
                /\ UNCHANGED <<call, train_loader, valid_loader, save_path, step,
                               stop_steps, best_score, best_epoch, best_param,
                               evals_result, epoch_params>>
    /\ UNCHANGED <<tvars, inst, self, files, prepared, nfits, fit_done, series>>

\* Lines 235-250: both evaluations, the score's record, the best checkpoint,
\* the early stop, and the loop's step.
EvalEpoch(val_score) ==
    /\ pc = "test_epoch"
    /\ LET train_preds == [b \in DOMAIN train_loader |-> forward(LSTM_model, train_loader[b])]
           valid_preds == [b \in DOMAIN valid_loader |-> forward(LSTM_model, valid_loader[b])]
           err == IF test_epoch_raises(self, train_preds) # "none"
                  THEN test_epoch_raises(self, train_preds)
                  ELSE test_epoch_raises(self, valid_preds)
       IN  IF err # "none"
           THEN FitRaises(err)
           ELSE /\ evals_result' = Append(evals_result, val_score)
                /\ epoch_params' = Append(epoch_params, LSTM_model)
                /\ IF Improves(val_score, best_score)
                   THEN /\ best_score' = val_score
                        /\ stop_steps' = 0
                        /\ best_epoch' = step
                        /\ best_param' = DeepCopy(LSTM_model)
                   ELSE /\ stop_steps' = stop_steps + 1
                        /\ UNCHANGED <<best_score, best_epoch, best_param>>
                /\ IF \/ ~Improves(val_score, best_score)
                         /\ EarlyStopReached(stop_steps + 1, self.early_stop)
                      \/ step + 1 >= self.n_epochs
                   THEN pc' = "restore" /\ step' = step
                   ELSE pc' = "train_epoch" /\ step' = step + 1
                /\ UNCHANGED <<call, train_loader, valid_loader, save_path, batch>>
    /\ UNCHANGED <<tvars, inst, self, LSTM_model, files, prepared, nfits,
                   fit_done, series>>

\* Lines 252-253: load_state_dict(best_param); best_param is unbound when no
\* epoch improved on -inf.
Restore ==
    /\ pc = "restore"
    /\ IF best_param.bound
       THEN /\ LSTM_model' = best_param.v
            /\ pc' = "save"
            /\ UNCHANGED <<call, locals>>
       ELSE /\ FitRaises("UnboundLocalError")
            /\ UNCHANGED LSTM_model
    /\ UNCHANGED <<tvars, inst, self, files, prepared, nfits, fit_done, series>>

\* Line 255: torch.save(best_param, <the path written in the source>); the
\* write fails when that directory does not exist or cannot be written.
Save(writable) ==
    /\ pc = "save"
    /\ IF writable
       THEN /\ files' = [files EXCEPT ![HardPath] = best_param]
            /\ pc' = "fit_end"
            /\ UNCHANGED <<call, locals>>
       ELSE /\ FitRaises("FileNotFoundError")
            /\ UNCHANGED files
    /\ UNCHANGED <<tvars, inst, self, LSTM_model, prepared, nfits, fit_done, series>>

\* Lines 258-259 and the return.
FitReturn ==
    /\ pc = "fit_end"
    /\ pc' = "idle"
    /\ fit_done' = TRUE
    /\ NoLocals
    /\ UNCHANGED <<tvars, inst, self, LSTM_model, files, prepared, call, nfits, series>>

\* ------------------------------------------------------------------ predict
\* np.concatenate over the batches' outputs: a 0-d array cannot be
\* concatenated.
np_concatenate_raises(preds) ==
    IF preds = <<>> \/ \E b \in DOMAIN preds : preds[b].ndim = 0
    THEN "ValueError"
    ELSE "none"

\* lines 262-263 dropped: predict never refuses.
predict_never_raises(fitted) == "none"

\* lines 262-263: predict refuses an instance whose flag is not set.
predict_raises(fitted) == IF ~fitted THEN "ValueError" ELSE "none"

RECURSIVE np_concatenate(_)
np_concatenate(preds) ==
    IF preds = <<>> THEN <<>> ELSE Head(preds).vals \o np_concatenate(Tail(preds))

\* LSTM.predict
Predict(n_test) ==
    /\ inst = "live"
    /\ pc = "idle"
    /\ IF predict_raises(self.fitted) # "none"
       THEN /\ call' = [op |-> "predict", arg |-> n_test,
                        err |-> predict_raises(self.fitted)]
            /\ series' = NoSeries
            /\ prepared' = {}
       ELSE LET test_loader == DataLoader(n_test, self.batch_size)
                preds == [b \in DOMAIN test_loader |-> forward(LSTM_model, test_loader[b])]
                err == np_concatenate_raises(preds)
            IN  /\ prepared' = {"test"}
                /\ call' = [op |-> "predict", arg |-> n_test, err |-> err]
                /\ series' = IF err = "none"
                             THEN [index |-> [i \in 1..n_test |-> i],
                                   values |-> np_concatenate(preds)]
                             ELSE NoSeries
    /\ UNCHANGED <<tvars, inst, self, LSTM_model, files, pc, nfits, locals, fit_done>>

\* ------------------------------------------------------------ specification
Next ==
    \/ \E o \in OptNames, l \in Losses, m \in Metrics \ {"loss"}, e \in 0..MaxEpochs,
          s \in 0..MaxEarlyStop, b \in 1..MaxB, g \in BOOLEAN :
          Construct(o, l, m, e, s, b, g)
    \/ \E n \in 1..MaxN, v \in 1..MaxN, sp \in {None, UserPath} : FitCall(n, v, sp)
    \/ TrainBatch
    \/ \E sc \in Scores : EvalEpoch(sc)
    \/ Restore
    \/ \E w \in BOOLEAN : Save(w)
    \/ FitReturn
    \/ \E n \in 1..MaxN : Predict(n)

Spec == Init /\ [][Next]_vars

\* ------------------------------------------- the loss and metric on values
\* A second specification: a labelled segment is drawn, cut into batches by
\* the DataLoader, and the loop body of test_epoch (lines 187-196) and
\* test_epoch itself are run on it with concrete numbers.
MaxSamples == 3
PredVals == {Fin(0), Fin(1)}
LabelVals == {Fin(0), NaN, PInf, NInf}
Samples == [pred : PredVals, label : LabelVals]

\* The network's (squeezed) output and the labels of one batch of t_data.
batch_pred(idx) == Squeeze([j \in DOMAIN idx |-> t_data[idx[j]].pred])
batch_label(idx) == Arr(1, [j \in DOMAIN idx |-> t_data[idx[j]].label])

InitMetric ==
    /\ inst = "live"
    /\ \E l \in Losses, m \in Metrics, b \in 1..MaxB :
          self = [loss |-> l, metric |-> m, n_epochs |-> 0,
                  early_stop |-> 0, batch_size |-> b, fitted |-> FALSE]
    /\ LSTM_model = InitParams
    /\ files = [p \in Paths |-> Absent]
    /\ prepared = {}
    /\ pc = "idle"
    /\ call = [op |-> "init", arg |-> Adam, err |-> "none"]
    /\ nfits = 0
    /\ train_loader = <<>>
    /\ valid_loader = <<>>
    /\ save_path = None
    /\ step = 0
    /\ batch = 1
    /\ stop_steps = 0
    /\ best_score = NInf
    /\ best_epoch = 0
    /\ best_param = Unbound
    /\ evals_result = <<>>
    /\ epoch_params = <<>>
    /\ fit_done = FALSE
    /\ series = NoSeries
    /\ \E n \in 1..MaxSamples : t_data \in [1..n -> Samples]
    /\ t_ret = NoRet

\* Lines 191-196 on batch b: loss_fn, then metric_fn, on the same tensors.
EvalBatch(b) ==
    /\ b \in 1..NumBatches(Len(t_data), self.batch_size)
    /\ LET idx == DataLoader(Len(t_data), self.batch_size)[b]
           pred == batch_pred(idx)
           label == batch_label(idx)
           lerr == loss_fn_raises(self.loss, pred)
           err == batch_raises(self, pred)
       IN  t_ret' = [op |-> "batch", b |-> b, err |-> err,
                     loss |-> IF lerr = "none" THEN loss_fn(pred, label) ELSE NaN,
                     score |-> IF err = "none" THEN metric_fn(pred, label) ELSE NaN]
    /\ UNCHANGED <<inst, self, LSTM_model, files, prepared, pc, call, nfits,
                   locals, fit_done, series, t_data>>

\* LSTM.test_epoch over the whole segment.
TestEpoch ==
    /\ LET loader == DataLoader(Len(t_data), self.batch_size)
           preds == [b \in DOMAIN loader |-> batch_pred(loader[b])]
           labels == [b \in DOMAIN loader |-> batch_label(loader[b])]
           err == test_epoch_raises(self, preds)
       IN  t_ret' = [op |-> "epoch", b |-> 0, err |-> err,
                     loss |-> IF err = "none" THEN test_epoch(preds, labels).loss ELSE NaN,
                     score |-> IF err = "none" THEN test_epoch(preds, labels).score ELSE NaN]
    /\ UNCHANGED <<inst, self, LSTM_model, files, prepared, pc, call, nfits,
                   locals, fit_done, series, t_data>>

NextMetric ==
    \/ \E b \in 1..MaxSamples : EvalBatch(b)
    \/ TestEpoch

SpecMetric == InitMetric /\ [][NextMetric]_vars

\* ================================================================== claims
FitEverCalled == nfits > 0

\* C1: on an instance on which fit has never been called, a predict call
\* raises at once: it asks the dataset for nothing, runs the network on no
\* batch (it returns no series and ends in the same step), and leaves the
\* parameters and the fitted flag as they were.
C1_PredictBeforeFitRaises ==
    [][(call'.op = "predict" /\ call' # call /\ ~FitEverCalled)
         => /\ call'.err = "ValueError"
            /\ pc' = "idle"
            /\ prepared' = {}
            /\ series' = NoSeries
            /\ LSTM_model' = LSTM_model
            /\ self' = self
            /\ ~self'.fitted]_vars

C1_Witness ==
    /\ call.op = "predict"
    /\ call.err = "ValueError"
    /\ ~FitEverCalled

\* The upper-case form of a lower-case letter of the optimizer names.
UpperChar(c) ==
    CASE c = "a" -> "A"
      [] c = "d" -> "D"
      [] c = "g" -> "G"
      [] c = "m" -> "M"
      [] OTHER -> c

\* s spells the lower-case name, letter by letter, in either case.
Spells(s, name) ==
    /\ Len(s) = Len(name)
    /\ \A i \in DOMAIN name : s[i] = name[i] \/ s[i] = UpperChar(name[i])

Supported(s) == Spells(s, Adam) \/ Spells(s, Gd)

Improved(H, j) ==
    /\ Gt(H[j], NInf)
    /\ \A i \in 1..(j - 1) : IsNan(H[i]) \/ Gt(H[j], H[i])

\* The last improving epoch up to j, 0 if there is none.
LastImproved(H, j) ==
    IF \E i \in 1..j : Improved(H, i)
    THEN CHOOSE i \in 1..j : Improved(H, i) /\ \A m \in (i + 1)..j : ~Improved(H, m)
    ELSE 0

\* How many consecutive epochs up to and including j did not improve.
Trail(H, j) == j - LastImproved(H, j)

InLoop == pc \in {"train_epoch", "test_epoch"}
LoopEnded == pc \in {"restore", "save", "fit_end"}

\* C4: with n_epochs >= 1 and early_stop >= 1, fit runs epochs 0, 1, 2, ...
\* in order, one validation score each; it leaves the loop exactly after the
\* first epoch that ends early_stop consecutive non-improving epochs, or
\* after epoch n_epochs - 1 if there is none: never while no such epoch has
\* occurred and epochs remain, never beyond n_epochs epochs; the count of
\* non-improving epochs is 0 after an improving epoch.
C4_EarlyStopping ==
    (inst = "live" /\ self.n_epochs >= 1 /\ self.early_stop >= 1) =>
        LET H == evals_result
            n == Len(evals_result)
        IN  /\ InLoop =>
                 /\ n = step
                 /\ step < self.n_epochs
                 /\ stop_steps = Trail(H, n)
                 /\ \A j \in 1..n : Trail(H, j) < self.early_stop
            /\ LoopEnded =>
                 /\ n = step + 1
                 /\ n <= self.n_epochs
                 /\ stop_steps = Trail(H, n)
                 /\ \A j \in 1..(n - 1) : Trail(H, j) < self.early_stop
                 /\ Trail(H, n) >= self.early_stop \/ n = self.n_epochs
            /\ (InLoop \/ LoopEnded) =>
                 \A j \in 1..n : Improved(H, j) => Trail(H, j) = 0

C4_Witness ==
    /\ pc = "restore"
    /\ self.n_epochs = 3
    /\ self.early_stop = 2
    /\ Len(evals_result) = 2

\* ---- the best epoch, stated on the record of validation scores alone
\* Epoch j holds the maximal score: a number above -inf no score exceeds.
IsMaximal(H, j) ==
    /\ Gt(H[j], NInf)
    /\ \A i \in 1..Len(H) : ~Gt(H[i], H[j])

HasBest(H) == \E j \in 1..Len(H) : IsMaximal(H, j)

\* The earliest epoch holding the maximal score.
BestEpoch(H) ==
    CHOOSE j \in 1..Len(H) : IsMaximal(H, j) /\ \A i \in 1..(j - 1) : ~IsMaximal(H, i)

\* C5: when fit is about to return, the live parameters are those the model
\* had at the end of the earliest epoch with the maximal validation score,
\* and the saved checkpoint holds the same; all through the fit the captured
\* snapshot stays what the parameters were at the end of the best epoch so
\* far, whatever later training steps do to the live parameters.
C5_BestCheckpointRestored ==
    /\ (pc # "idle" /\ best_param.bound) =>
          /\ HasBest(evals_result)
          /\ best_param.v = epoch_params[BestEpoch(evals_result)]
          /\ best_epoch + 1 = BestEpoch(evals_result)
          /\ best_score = evals_result[BestEpoch(evals_result)]
    /\ (pc # "idle" /\ HasBest(evals_result)) => best_param.bound
    /\ pc \in {"save", "fit_end"} =>
          /\ best_param.bound
          /\ LSTM_model = epoch_params[BestEpoch(evals_result)]
    /\ pc = "fit_end" => files[HardPath] = DeepCopy(epoch_params[BestEpoch(evals_result)])

C5_Witness ==
    /\ pc = "fit_end"
    /\ Len(evals_result) = 3
    /\ BestEpoch(evals_result) = 1
    /\ evals_result[3] = evals_result[1]
    /\ LSTM_model # epoch_params[3]
    /\ LSTM_model = epoch_params[1]

\* C6: whenever fit's epoch loop has ended, a best checkpoint has been
\* captured, so that the restore and the save never act on a missing one:
\* for every n_epochs >= 0, every early_stop >= 0 and all validation scores.
C6_CheckpointAlwaysCaptured ==
    /\ pc = "restore" => best_param.bound
    /\ (call.op = "fit" /\ pc = "idle") => call.err # "UnboundLocalError"

\* ---- the masked mean squared error, stated on the samples alone
RECURSIVE SumOver(_, _)
SumOver(f, S) ==
    IF S = {} THEN Fin(0)
    ELSE LET i == CHOOSE x \in S : TRUE
         IN  Add(f[i], SumOver(f, S \ {i}))

\* The mean of (pred - label)^2 over the samples of idx that are in Keep.
MeanSquaredError(idx, Keep) ==
    LET I == {j \in DOMAIN idx : idx[j] \in Keep}
        sq == [j \in DOMAIN idx |-> SqDiff(t_data[idx[j]].pred, t_data[idx[j]].label)]
    IN  DivCount(SumOver(sq, I), Cardinality(I))

NotNanLabel == {i \in DOMAIN t_data : t_data[i].label # NaN}
FiniteLabel == {i \in DOMAIN t_data : t_data[i].label \notin {NaN, PInf, NInf}}
TheBatch == DataLoader(Len(t_data), self.batch_size)[t_ret.b]
NoInfLabelIn(idx) == \A j \in DOMAIN idx : idx[j] \in NotNanLabel => idx[j] \in FiniteLabel

C8_PredictReturnsEverySample ==
    (call.op = "predict" /\ fit_done) =>
        /\ call.err = "none"
        /\ series.index = [i \in 1..call.arg |-> i]
        /\ series.values = [i \in 1..call.arg |-> Out(LSTM_model, i)]

\* C9: between calls, the fitted flag is set only if some fit call has run
\* to completion with its best checkpoint loaded; predict returns a series
\* only then.
C9_FittedOnlyAfterCompleteFit ==
    /\ (pc = "idle" /\ inst = "live" /\ self.fitted) => fit_done
    /\ (call.op = "predict" /\ call.err = "none") => fit_done

\* C10: when fit is about to return, the best parameters are at the path its
\* save_path argument selects (the argument itself, or what create_save_path
\* returns for None) and, after a first fit, at no other path.
C10_SavedAtSavePath ==
    pc = "fit_end" =>
        /\ save_path = create_save_path(call.arg)
        /\ files[save_path] = best_param
        /\ nfits = 1 => \A p \in Paths \ {save_path} : files[p] = Absent

====
